---- MODULE Spec2Model ----
(***************************************************************************)
(* Book catalogue API (FastAPI + SQLAlchemy AsyncSession + PostgreSQL).    *)
(*                                                                         *)
(* The model has three layers:                                             *)
(*   - values: texts are tuples of one-character strings, every optional   *)
(*     field is <<>> (Python None) or <<v>>;                               *)
(*   - pure functions of the services (validation, filter predicate,       *)
(*     pagination metadata, dirty-column computation of the unit of work); *)
(*   - the request state machine: every HTTP request owns one session and  *)
(*     advances one database round trip (one await) per step, the table    *)
(*     `store` being the only shared state.                                *)
(***************************************************************************)
EXTENDS Integers, Sequences, FiniteSets, TLC

VARIABLES
    store,      \* table books: id -> row
    nextId,     \* next value of the books.id sequence
    now,        \* database clock, func.now()
    req,        \* request slot -> request state (session, position, locals)
    fn          \* inputs and result of the pure-function specifications

vars == <<store, nextId, now, req, fn>>

-----------------------------------------------------------------------------
(* Bounds of the model *)

MaxTextLen == 2     \* longest enumerated filter / title text
MaxBatch == 3       \* longest import batch
MaxId == 2          \* the id sequence is consumed up to this value
MaxClock == 1       \* the clock ticks up to this value
MaxItems == 7       \* largest total_items given to the pagination
MaxPage == 4        \* largest page number
MaxPageSize == 4    \* largest page size

-----------------------------------------------------------------------------
(* Values *)

\* concurrent requests: two slots, each with a session of its own
Reqs == {1, 2}

None == <<>>
Some(v) == <<v>>
IsNone(o) == o = <<>>
Val(o) == o[1]

\* Python truthiness of an Optional[str] / Optional[int]
TruthyText(o) == ~IsNone(o) /\ Len(Val(o)) > 0
TruthyInt(o) == ~IsNone(o) /\ Val(o) # 0

Chars == {"a", "A", "_", "%"}

RECURSIVE TextsOfLen(_)
TextsOfLen(n) ==
    IF n = 0 THEN {<<>>}
    ELSE {Append(t, c) : t \in TextsOfLen(n - 1), c \in Chars}

RECURSIVE TextsUpTo(_)
TextsUpTo(n) == IF n = 0 THEN TextsOfLen(0) ELSE TextsOfLen(n) \cup TextsUpTo(n - 1)

\* str.lower() / the case folding of ILIKE on the modelled alphabet
Lower(c) ==
    CASE c = "A" -> "a"
      [] c = "B" -> "b"
      [] c = "M" -> "m"
      [] c = "J" -> "j"
      [] c = "S" -> "s"
      [] c = "O" -> "o"
      [] c = "N" -> "n"
      [] OTHER -> c

LowerText(t) == [i \in 1..Len(t) |-> Lower(t[i])]

Digits == {"0", "1", "2", "3", "4", "5", "6", "7", "8", "9"}

RECURSIVE CountDigits(_)
CountDigits(t) ==
    IF t = <<>> THEN 0
    ELSE (IF Head(t) \in Digits THEN 1 ELSE 0) + CountDigits(Tail(t))

TitleMaxLen == 255
IsbnMaxLen == 20
YearMin == 1000
CurrentYear == 2026

\* Field(max_length=20, pattern=^(?=(?:\D*\d){10}(?:(?:\D*\d){3})?$)[\d-]+$)
IsbnOk(t) ==
    /\ Len(t) <= IsbnMaxLen
    /\ Len(t) > 0
    /\ \A i \in 1..Len(t) : t[i] \in Digits \cup {"-"}
    /\ CountDigits(t) \in {10, 13}

YearOk(y) == y >= YearMin /\ y <= CurrentYear

\* BookCreate(**book_data): required title and author, optional rest
BookCreateOk(d) ==
    /\ ~IsNone(d.title) /\ Len(Val(d.title)) <= TitleMaxLen
    /\ ~IsNone(d.author) /\ Len(Val(d.author)) <= TitleMaxLen
    /\ IsNone(d.publication_year) \/ YearOk(Val(d.publication_year))
    /\ IsNone(d.isbn) \/ IsbnOk(Val(d.isbn))

\* BookUpdate(**data): every field optional
BookUpdateOk(d) ==
    /\ IsNone(d.title) \/ Len(Val(d.title)) <= TitleMaxLen
    /\ IsNone(d.author) \/ Len(Val(d.author)) <= TitleMaxLen
    /\ IsNone(d.publication_year) \/ YearOk(Val(d.publication_year))
    /\ IsNone(d.isbn) \/ IsbnOk(Val(d.isbn))

UserFields == {"title", "author", "description", "publication_year", "isbn"}

-----------------------------------------------------------------------------
(* Pagination metadata, BookService.get_books *)

\* math.ceil(a / b) for a >= 0, b >= 1
Ceil(a, b) == (a + b - 1) \div b

PaginationMetadataFloor(total_items, page, page_size) ==
    LET total_pages == IF total_items > 0 THEN total_items \div page_size ELSE 0
    IN  [current_page |-> page, page_size |-> page_size,
         total_items |-> total_items, total_pages |-> total_pages,
         has_next |-> page < total_pages, has_previous |-> page > 1]

PaginationMetadata(total_items, page, page_size) ==
    LET total_pages == IF total_items > 0 THEN Ceil(total_items, page_size) ELSE 0
    IN  [current_page |-> page, page_size |-> page_size,
         total_items |-> total_items, total_pages |-> total_pages,
         has_next |-> page < total_pages, has_previous |-> page > 1]

-----------------------------------------------------------------------------
(* Filter predicate, BookService.get_books and the query parsing of the route *)

\* SQL LIKE: % is any run of characters, _ any one character, \ escapes
RECURSIVE LikeMatch(_, _)
LikeMatch(s, p) ==
    IF p = <<>> THEN s = <<>>
    ELSE IF Head(p) = "%" THEN
        \E k \in 0..Len(s) : LikeMatch(SubSeq(s, k + 1, Len(s)), Tail(p))
    ELSE IF s = <<>> THEN FALSE
    ELSE IF Head(p) = "_" THEN LikeMatch(Tail(s), Tail(p))
    ELSE IF Head(p) = "\\" /\ Len(p) > 1 THEN
        Head(s) = p[2] /\ LikeMatch(Tail(s), Tail(Tail(p)))
    ELSE Head(s) = Head(p) /\ LikeMatch(Tail(s), Tail(p))

\* column.ilike(f"%{value}%")
ILike(text, value) ==
    LikeMatch(LowerText(text), <<"%">> \o LowerText(value) \o <<"%">>)

\* filters dict built by the route: only truthy query parameters are kept
RouteFilters(q) ==
    [title |-> IF TruthyText(q.title) THEN q.title ELSE None,
     author |-> IF TruthyText(q.author) THEN q.author ELSE None,
     publication_year |-> IF TruthyInt(q.publication_year) THEN q.publication_year ELSE None,
     isbn |-> IF TruthyText(q.isbn) THEN q.isbn ELSE None]

\* hasattr(Book, key): the mapped columns of the class Book
BookAttrs ==
    {"id", "title", "author", "description", "publication_year", "isbn",
     "created_at", "updated_at"}

HasAttr(key) == key \in BookAttrs

\* the keys of filters that append a condition to filter_conditions
FilterConditions(filters) ==
    {key \in DOMAIN filters : HasAttr(key) /\ ~IsNone(filters[key])}

\* the value of a column of a row as an optional value; id and the two
\* timestamps are never NULL
Column(row, key) ==
    IF key \in {"id", "created_at", "updated_at"} THEN Some(row[key]) ELSE row[key]

\* the WHERE clause of get_books evaluated on one row: and_ of the conditions,
\* no WHERE at all when there is none
RowMatches(row, filters) ==
    \A key \in FilterConditions(filters) :
        IF key \in {"title", "author"}
        THEN ~IsNone(row[key]) /\ ILike(Val(row[key]), Val(filters[key]))
        ELSE Column(row, key) = filters[key]

-----------------------------------------------------------------------------
(* Inputs of the pure-function specifications *)

Book1 == <<"B", "o", "o", "k", " ", "1">>
MyBook == <<"M", "y", " ", "B", "o", "o", "k">>
Bk1 == <<"B", "k", " ", "1">>
BookWord == <<"B", "o", "o", "k">>

IsbnA == <<"1", "2", "3", "4", "5", "6", "7", "8", "9", "0">>
IsbnB == <<"9", "7", "8", "-", "0", "1", "2", "3", "4", "5", "6", "7", "8", "9">>
IsbnBad == <<"1", "2", "3">>

FilterTitles == TextsUpTo(MaxTextLen) \cup {Book1, MyBook, Bk1}
FilterAuthors == {<<"a">>, <<"A", "_">>}

FilterRows ==
    [title : {Some(t) : t \in FilterTitles},
     author : {Some(t) : t \in FilterAuthors},
     publication_year : {None, Some(2000)},
     isbn : {None, Some(IsbnA)}]

FilterQueries ==
    [title : {None} \cup {Some(t) : t \in TextsUpTo(MaxTextLen) \cup {BookWord}},
     author : {None, Some(<<"a">>)},
     publication_year : {None, Some(2000)},
     isbn : {None, Some(IsbnA)}]

NoStore == [i \in {} |-> None]

NoData ==
    [title |-> None, author |-> None, description |-> None,
     publication_year |-> None, isbn |-> None]

\* a request slot that holds no request; sess is the state of the root
\* transaction of the request's AsyncSession, provider_calls the number of
\* GET requests it sent to the metadata API, metadata the BookMetadata it
\* got, file the upload of an import
Idle ==
    [kind |-> "idle", pc |-> "idle", sess |-> "active", book_id |-> 0,
     data |-> NoData, obj |-> None, batch |-> <<>>, idx |-> 0,
     successful_imports |-> 0, failed_imports |-> 0, errors |-> <<>>,
     inserted |-> <<>>, provider_calls |-> 0, metadata |-> None,
     file |-> None, resp |-> None]

InitRest ==
    /\ store = NoStore
    /\ nextId = 1
    /\ now = 0
    /\ req = [r \in Reqs |-> Idle]

\* GET /books with drawn counts: the metadata of lines 73-82
InitPage ==
    /\ InitRest
    /\ \E t \in 0..MaxItems, p \in 1..MaxPage, s \in 1..MaxPageSize :
          fn = [op |-> "page", total_items |-> t, page |-> p, page_size |-> s,
                out |-> None]

ApplyPage ==
    /\ fn.op = "page" /\ IsNone(fn.out)
    /\ fn' = [fn EXCEPT !.out = Some(PaginationMetadata(fn.total_items, fn.page, fn.page_size))]
    /\ UNCHANGED <<store, nextId, now, req>>

SpecPage == InitPage /\ [][ApplyPage]_vars

\* GET /books?title=&author=&publication_year=&isbn= on one row
InitFilter ==
    /\ InitRest
    /\ \E row \in FilterRows, q \in FilterQueries :
          fn = [op |-> "filter", row |-> row, query |-> q, out |-> None]

ApplyFilter ==
    /\ fn.op = "filter" /\ IsNone(fn.out)
    /\ fn' = [fn EXCEPT !.out = Some(RowMatches(fn.row, RouteFilters(fn.query)))]
    /\ UNCHANGED <<store, nextId, now, req>>

SpecFilter == InitFilter /\ [][ApplyFilter]_vars

\* rows and filter mappings of get_books called with an arbitrary mapping
CompileRows ==
    [id : {1},
     title : {Some(<<"a">>), Some(<<"b">>)},
     author : {Some(<<"a">>)},
     description : {None, Some(<<"a">>), Some(<<"b">>)},
     publication_year : {None, Some(2000)},
     isbn : {None},
     created_at : {0}, updated_at : {0}]

CompileKeys == {"title", "publication_year", "description", "id", "genre"}

CompileValues ==
    [title : {None, Some(<<"a">>)},
     publication_year : {None, Some(2000)},
     description : {None, Some(<<"a">>)},
     id : {None, Some(1), Some(2)},
     genre : {None, Some(<<"a">>)}]

\* every mapping from a subset of CompileKeys to a value or None
CompileFilters ==
    UNION {{[key \in K |-> v[key]] : v \in CompileValues} : K \in SUBSET CompileKeys}

\* BookService.get_books(filters=...) on one row: the conditions compiled and
\* whether the row is selected
InitCompile ==
    /\ InitRest
    /\ \E row \in CompileRows, f \in CompileFilters :
          fn = [op |-> "compile", row |-> row, filters |-> f, out |-> None]

ApplyCompile ==
    /\ fn.op = "compile" /\ IsNone(fn.out)
    /\ fn' = [fn EXCEPT !.out = Some([terms |-> FilterConditions(fn.filters),
                                      selected |-> RowMatches(fn.row, fn.filters)])]
    /\ UNCHANGED <<store, nextId, now, req>>

SpecCompile == InitCompile /\ [][ApplyCompile]_vars

-----------------------------------------------------------------------------
(* The table books and the unit of work of the session *)

Ids == DOMAIN store

IsbnTakenNever(st, isbn, self) == FALSE

IsbnTakenOnInsertOnly(st, isbn, self) ==
    /\ self = 0
    /\ ~IsNone(isbn)
    /\ \E i \in DOMAIN st : st[i].isbn = isbn

\* unique=True on books.isbn; NULLs never collide
IsbnTaken(st, isbn, self) ==
    /\ ~IsNone(isbn)
    /\ \E i \in DOMAIN st : i # self /\ st[i].isbn = isbn

NewRowNoDescription(id, data, t) ==
    [id |-> id, title |-> data.title, author |-> data.author,
     description |-> None,
     publication_year |-> data.publication_year, isbn |-> data.isbn,
     created_at |-> t, updated_at |-> t]

\* Book(**book_data.model_dump()) as inserted: id from the sequence,
\* created_at and updated_at from default=func.now()
NewRow(id, data, t) ==
    [id |-> id, title |-> data.title, author |-> data.author,
     description |-> data.description,
     publication_year |-> data.publication_year, isbn |-> data.isbn,
     created_at |-> t, updated_at |-> t]

\* the table after the INSERT or UPDATE of one row
Put(st, row) ==
    [i \in DOMAIN st \cup {row.id} |-> IF i = row.id THEN row ELSE st[i]]

RemoveNothing(st, id) == st

\* DELETE FROM books WHERE id = :id
Remove(st, id) == [i \in DOMAIN st \ {id} |-> st[i]]

\* update_data of update_book: the non-null fields of the payload
UpdateData(data) == {f \in UserFields : ~IsNone(data[f])}

\* columns of the UPDATE the flush emits: the attributes that setattr changed
\* with respect to the values the session loaded
DirtyColumns(obj, data) == {f \in UpdateData(data) : data[f] # obj[f]}

UpdatedKeepsTimestamp(row, data, cols, t) ==
    LET pick(f) == IF f \in cols THEN data[f] ELSE row[f]
    IN  [id |-> row.id, title |-> pick("title"), author |-> pick("author"),
         description |-> pick("description"),
         publication_year |-> pick("publication_year"), isbn |-> pick("isbn"),
         created_at |-> row.created_at, updated_at |-> row.updated_at]

\* UPDATE books SET <cols>, updated_at=now() WHERE id = row.id
Updated(row, data, cols, t) ==
    LET pick(f) == IF f \in cols THEN data[f] ELSE row[f]
    IN  [id |-> row.id, title |-> pick("title"), author |-> pick("author"),
         description |-> pick("description"),
         publication_year |-> pick("publication_year"), isbn |-> pick("isbn"),
         created_at |-> row.created_at, updated_at |-> t]

\* a response: the status code, the book of the body (BookResponse) and, for
\* an error, the class of the exception or HTTPException that produced it
Resp(code, book) == [code |-> code, book |-> book, error |-> ""]

Err(code, error) == [code |-> code, book |-> None, error |-> error]

\* get_book_by_id: the row or None
GetBookById(st, id) == IF id \in DOMAIN st THEN Some(st[id]) ELSE None

SameUserFields(row, data) == \A f \in UserFields : row[f] = data[f]

-----------------------------------------------------------------------------
(* Requests.  Each action is one await of a route: the work up to and       *)
(* including one database round trip.                                      *)

Tick ==
    /\ now < MaxClock
    /\ now' = now + 1
    /\ UNCHANGED <<store, nextId, req, fn>>

\* the route returned (or raised) and the slot is free for the next request
Reset(r) ==
    /\ req[r].pc = "done"
    /\ req' = [req EXCEPT ![r] = Idle]
    /\ UNCHANGED <<store, nextId, now, fn>>

\* GET /books/{id}: get_book_by_id
GetBook(r, id) ==
    /\ req[r].pc = "idle"
    /\ req' = [req EXCEPT ![r] =
          [Idle EXCEPT !.kind = "get", !.pc = "done", !.book_id = id,
             !.resp = IF IsNone(GetBookById(store, id))
                      THEN Some(Err(404, "HTTPException"))
                      ELSE Some(Resp(200, GetBookById(store, id)))]]
    /\ UNCHANGED <<store, nextId, now, fn>>

\* POST /books: body validation, then create_book up to session.commit().
\* The INSERT takes its id from the sequence before the unique index is
\* checked; an IntegrityError leaves the route as a 500.
CreateBook(r, draft) ==
    /\ req[r].pc = "idle"
    /\ IF ~BookCreateOk(draft) THEN
          /\ req' = [req EXCEPT ![r] =
                [Idle EXCEPT !.kind = "create", !.pc = "done", !.data = draft,
                             !.resp = Some(Err(422, "RequestValidationError"))]]
          /\ UNCHANGED <<store, nextId>>
       ELSE
          /\ nextId <= MaxId
          /\ nextId' = nextId + 1
          /\ IF IsbnTaken(store, draft.isbn, 0) THEN
                /\ req' = [req EXCEPT ![r] =
                      [Idle EXCEPT !.kind = "create", !.pc = "done",
                                   !.data = draft, !.sess = "deactive",
                                   !.resp = Some(Err(500, "IntegrityError"))]]
                /\ UNCHANGED store
             ELSE
                /\ store' = Put(store, NewRow(nextId, draft, now))
                /\ req' = [req EXCEPT ![r] =
                      [Idle EXCEPT !.kind = "create", !.pc = "refresh",
                                   !.data = draft, !.book_id = nextId,
                                   !.obj = Some(NewRow(nextId, draft, now)),
                                   !.inserted = <<nextId>>]]
    /\ UNCHANGED <<now, fn>>

\* create_book: session.refresh(book) and the response
CreateRefresh(r) ==
    /\ req[r].kind = "create" /\ req[r].pc = "refresh"
    /\ req' = [req EXCEPT ![r].pc = "done",
          ![r].obj = IF req[r].book_id \in Ids THEN Some(store[req[r].book_id]) ELSE @,
          ![r].resp = IF req[r].book_id \in Ids
                      THEN Some(Resp(201, Some(store[req[r].book_id])))
                      ELSE Some(Err(500, "InvalidRequestError"))]
    /\ UNCHANGED <<store, nextId, now, fn>>

\* PUT /books/{id}: body validation, then update_book up to the SELECT
UpdateSelect(r, id, data) ==
    /\ req[r].pc = "idle"
    /\ req' = [req EXCEPT ![r] =
          IF ~BookUpdateOk(data) THEN
              [Idle EXCEPT !.kind = "update", !.pc = "done", !.book_id = id,
                           !.data = data,
                           !.resp = Some(Err(422, "RequestValidationError"))]
          ELSE IF id \notin Ids THEN
              [Idle EXCEPT !.kind = "update", !.pc = "done", !.book_id = id,
                           !.data = data,
                           !.resp = Some(Err(404, "HTTPException"))]
          ELSE
              [Idle EXCEPT !.kind = "update", !.pc = "flush", !.book_id = id,
                           !.data = data, !.obj = Some(store[id])]]
    /\ UNCHANGED <<store, nextId, now, fn>>

\* update_book: the setattr loop and session.commit().  Nothing is emitted
\* when no attribute changed; an UPDATE that matches no row is a
\* StaleDataError, a colliding isbn an IntegrityError (both leave as 500).
UpdateCommit(r) ==
    /\ req[r].kind \in {"update", "enrich"} /\ req[r].pc = "flush"
    /\ LET id == req[r].book_id
           cols == DirtyColumns(Val(req[r].obj), req[r].data)
       IN  IF cols = {} THEN
               /\ req' = [req EXCEPT ![r].pc = "refresh"]
               /\ UNCHANGED store
           ELSE IF id \notin Ids THEN
               /\ req' = [req EXCEPT ![r].pc = "done", ![r].sess = "deactive",
                                     ![r].resp = Some(Err(500, "StaleDataError"))]
               /\ UNCHANGED store
           ELSE IF "isbn" \in cols /\ IsbnTaken(store, req[r].data.isbn, id) THEN
               /\ req' = [req EXCEPT ![r].pc = "done", ![r].sess = "deactive",
                                     ![r].resp = Some(Err(500, "IntegrityError"))]
               /\ UNCHANGED store
           ELSE
               /\ store' = Put(store, Updated(store[id], req[r].data, cols, now))
               /\ req' = [req EXCEPT ![r].pc = "refresh"]
    /\ UNCHANGED <<nextId, now, fn>>

\* update_book: session.refresh(book) and the response
UpdateRefresh(r) ==
    /\ req[r].kind \in {"update", "enrich"} /\ req[r].pc = "refresh"
    /\ req' = [req EXCEPT ![r].pc = "done",
          ![r].obj = IF req[r].book_id \in Ids THEN Some(store[req[r].book_id]) ELSE @,
          ![r].resp = IF req[r].book_id \in Ids
                      THEN Some(Resp(200, Some(store[req[r].book_id])))
                      ELSE Some(Err(500, "InvalidRequestError"))]
    /\ UNCHANGED <<store, nextId, now, fn>>

\* DELETE /books/{id}: delete_book up to the SELECT
DeleteSelect(r, id) ==
    /\ req[r].pc = "idle"
    /\ req' = [req EXCEPT ![r] =
          IF id \notin Ids THEN
              [Idle EXCEPT !.kind = "delete", !.pc = "done", !.book_id = id,
                           !.resp = Some(Err(404, "HTTPException"))]
          ELSE
              [Idle EXCEPT !.kind = "delete", !.pc = "flush", !.book_id = id,
                           !.obj = Some(store[id])]]
    /\ UNCHANGED <<store, nextId, now, fn>>

\* delete_book: session.delete(book), session.commit() and the response.
\* A DELETE that matches no row only warns.
DeleteCommit(r) ==
    /\ req[r].kind = "delete" /\ req[r].pc = "flush"
    /\ store' = Remove(store, req[r].book_id)
    /\ req' = [req EXCEPT ![r].pc = "done", ![r].resp = Some(Resp(200, None))]
    /\ UNCHANGED <<nextId, now, fn>>

\* str.endswith
EndsWith(text, suffix) ==
    /\ Len(text) >= Len(suffix)
    /\ SubSeq(text, Len(text) - Len(suffix) + 1, Len(text)) = suffix

DotJson == <<".", "j", "s", "o", "n">>

\* file.filename.lower().endswith(".json")
FileNameOk(filename) == EndsWith(LowerText(filename), DotJson)

ImportPrecheckObjectRejected(file) ==
    IF ~FileNameOk(file.filename) THEN Err(400, "HTTPException")
    ELSE IF file.json = "undecodable" THEN Err(500, "UnicodeDecodeError")
    ELSE IF file.json \in {"invalid", "other", "dict"} THEN Err(400, "HTTPException")
    ELSE Resp(0, None)

\* process_json_file up to the loop: the file name, content.decode("utf-8"),
\* json.loads and the list / single object distinction.  The outcome is the
\* error the request ends with, or code 0 when the loop is entered.  json is
\* what the content of the file is: bytes that are no UTF-8 ("undecodable"),
\* text that is no JSON ("invalid"), a JSON array ("list"), a JSON object
\* ("dict") or another JSON value ("other").  Only json.JSONDecodeError is
\* caught around the decoding; UnicodeDecodeError leaves the function.
ImportPrecheck(file) ==
    IF ~FileNameOk(file.filename) THEN Err(400, "HTTPException")
    ELSE IF file.json = "undecodable" THEN Err(500, "UnicodeDecodeError")
    ELSE IF file.json \in {"invalid", "other"} THEN Err(400, "HTTPException")
    ELSE Resp(0, None)

\* POST /books/import/json up to the loop of process_json_file
ImportBegin(r, file) ==
    /\ req[r].pc = "idle"
    /\ req' = [req EXCEPT ![r] =
          IF ImportPrecheck(file).code # 0 THEN
              [Idle EXCEPT !.kind = "import", !.pc = "done", !.file = Some(file),
                           !.resp = Some(ImportPrecheck(file))]
          ELSE
              [Idle EXCEPT !.kind = "import", !.pc = "loop", !.file = Some(file),
                           !.batch = file.items]]
    /\ UNCHANGED <<store, nextId, now, fn>>

ErrorMsgZeroBased(kind, idx) == [kind |-> kind, pos |-> idx]

ErrorMsg(kind, idx) == [kind |-> kind, pos |-> idx + 1]

FailedSilently(q, kind) ==
    [q EXCEPT !.pc = "loop", !.idx = @ + 1, !.failed_imports = @ + 1]

\* the except blocks of the loop: count the item as failed and append its
\* message, then go on with the next item
Failed(q, kind) ==
    [q EXCEPT !.pc = "loop", !.idx = @ + 1, !.failed_imports = @ + 1,
              !.errors = Append(@, ErrorMsg(kind, q.idx))]

\* one iteration of the loop of process_json_file up to session.commit() of
\* create_book.  A ValidationError and any other exception are caught and
\* counted; the session is never rolled back, so after one failed flush every
\* later commit raises PendingRollbackError.
ImportItem(r) ==
    /\ req[r].kind = "import" /\ req[r].pc = "loop"
    /\ req[r].idx < Len(req[r].batch)
    /\ LET idx == req[r].idx
           item == req[r].batch[idx + 1]
       IN  IF ~BookCreateOk(item) THEN
               /\ req' = [req EXCEPT ![r] = Failed(@, "validation")]
               /\ UNCHANGED <<store, nextId>>
           ELSE IF req[r].sess = "deactive" THEN
               /\ req' = [req EXCEPT ![r] = Failed(@, "import")]
               /\ UNCHANGED <<store, nextId>>
           ELSE
               /\ nextId <= MaxId
               /\ nextId' = nextId + 1
               /\ IF IsbnTaken(store, item.isbn, 0) THEN
                     /\ req' = [req EXCEPT ![r] =
                           [Failed(@, "import") EXCEPT !.sess = "deactive"]]
                     /\ UNCHANGED store
                  ELSE
                     /\ store' = Put(store, NewRow(nextId, item, now))
                     /\ req' = [req EXCEPT ![r].pc = "refresh",
                           ![r].book_id = nextId,
                           ![r].obj = Some(NewRow(nextId, item, now)),
                           ![r].inserted = Append(@, nextId)]
    /\ UNCHANGED <<now, fn>>

\* the rest of the iteration: session.refresh(book) of create_book and the
\* success count; a row that is gone makes refresh raise, which is counted
ImportRefresh(r) ==
    /\ req[r].kind = "import" /\ req[r].pc = "refresh"
    /\ req' = [req EXCEPT ![r] =
          IF req[r].book_id \in Ids THEN
              [@ EXCEPT !.pc = "loop", !.idx = @ + 1,
                        !.obj = Some(store[req[r].book_id]),
                        !.successful_imports = @ + 1]
          ELSE Failed(@, "import")]
    /\ UNCHANGED <<store, nextId, now, fn>>

\* return successful_imports, failed_imports, errors
ImportReturn(r) ==
    /\ req[r].kind = "import" /\ req[r].pc = "loop"
    /\ req[r].idx = Len(req[r].batch)
    /\ req' = [req EXCEPT ![r].pc = "done", ![r].resp = Some(Resp(200, None))]
    /\ UNCHANGED <<store, nextId, now, fn>>

EnhanceBookDataLastAuthor(book_data, metadata) ==
    [title |-> IF Len(metadata.title) > 0 THEN Some(metadata.title)
               ELSE book_data.title,
     author |-> IF ~TruthyText(book_data.author) /\ Len(metadata.authors) > 0
                THEN Some(metadata.authors[Len(metadata.authors)]) ELSE book_data.author,
     description |-> IF ~TruthyText(book_data.description)
                        /\ TruthyText(metadata.description)
                     THEN metadata.description ELSE book_data.description,
     publication_year |-> book_data.publication_year,
     isbn |-> book_data.isbn,
     cover_url |-> metadata.cover_url,
     genre |-> IF Len(metadata.genres) > 0 THEN Some(metadata.genres[1]) ELSE None,
     publication_date |-> metadata.publication_date]

EnhanceBookDataAuthorAlways(book_data, metadata) ==
    [title |-> IF Len(metadata.title) > 0 THEN Some(metadata.title)
               ELSE book_data.title,
     author |-> IF Len(metadata.authors) > 0
                THEN Some(metadata.authors[1]) ELSE book_data.author,
     description |-> IF ~TruthyText(book_data.description)
                        /\ TruthyText(metadata.description)
                     THEN metadata.description ELSE book_data.description,
     publication_year |-> book_data.publication_year,
     isbn |-> book_data.isbn,
     cover_url |-> metadata.cover_url,
     genre |-> IF Len(metadata.genres) > 0 THEN Some(metadata.genres[1]) ELSE None,
     publication_date |-> metadata.publication_date]

\* MetadataService.enhance_book_data after the fetch: the merged dict
EnhanceBookData(book_data, metadata) ==
    [title |-> IF Len(metadata.title) > 0 THEN Some(metadata.title)
               ELSE book_data.title,
     author |-> IF ~TruthyText(book_data.author) /\ Len(metadata.authors) > 0
                THEN Some(metadata.authors[1]) ELSE book_data.author,
     description |-> IF ~TruthyText(book_data.description)
                        /\ TruthyText(metadata.description)
                     THEN metadata.description ELSE book_data.description,
     publication_year |-> book_data.publication_year,
     isbn |-> book_data.isbn,
     cover_url |-> metadata.cover_url,
     genre |-> IF Len(metadata.genres) > 0 THEN Some(metadata.genres[1]) ELSE None,
     publication_date |-> metadata.publication_date]

\* BookUpdate(**enhanced_book_data): keys that are no field of BookUpdate
\* are dropped
BookUpdateOf(d) ==
    [title |-> d.title, author |-> d.author, description |-> d.description,
     publication_year |-> d.publication_year, isbn |-> d.isbn]

EnrichPrecheckNoIsbnTest(st, id) ==
    IF id \notin DOMAIN st THEN 404 ELSE 0

\* the checks of the route before it asks for metadata: the status of the
\* HTTPException raised, 0 when none is
EnrichPrecheck(st, id) ==
    IF id \notin DOMAIN st THEN 404
    ELSE IF ~TruthyText(st[id].isbn) THEN 400
    ELSE 0

\* GET /books/{id}/metadata up to the SELECT of get_book_by_id
EnrichSelect(r, id) ==
    /\ req[r].pc = "idle"
    /\ req' = [req EXCEPT ![r] =
          IF EnrichPrecheck(store, id) # 0 THEN
              [Idle EXCEPT !.kind = "enrich", !.pc = "done", !.book_id = id,
                           !.obj = GetBookById(store, id),
                           !.resp = Some(Err(EnrichPrecheck(store, id), "HTTPException"))]
          ELSE
              [Idle EXCEPT !.kind = "enrich", !.pc = "fetch", !.book_id = id,
                           !.obj = Some(store[id])]]
    /\ UNCHANGED <<store, nextId, now, fn>>

AfterFetchRetry(q, outcome, metadata) ==
    IF outcome = "request_error" THEN
        IF q.provider_calls = 0
        THEN [q EXCEPT !.provider_calls = @ + 1]
        ELSE [q EXCEPT !.pc = "done", !.provider_calls = @ + 1,
                       !.resp = Some(Err(503, "HTTPException"))]
    ELSE IF outcome = "malformed" THEN
        [q EXCEPT !.pc = "done", !.provider_calls = @ + 1,
                  !.resp = Some(Err(500, "HTTPException"))]
    ELSE
        LET d == BookUpdateOf(EnhanceBookData(Val(q.obj), metadata))
        IN  IF BookUpdateOk(d)
            THEN [q EXCEPT !.pc = "select", !.provider_calls = @ + 1,
                           !.metadata = Some(metadata), !.data = d]
            ELSE [q EXCEPT !.pc = "done", !.provider_calls = @ + 1,
                           !.metadata = Some(metadata),
                           !.resp = Some(Err(500, "ValidationError"))]

\* the request q after enhance_book_data and BookUpdate(**enhanced_book_data):
\* one GET of get_book_metadata, which raises HTTPException 503 on
\* httpx.RequestError and HTTPException 500 on any other exception (a body
\* that is no JSON or no BookMetadata), then the merge
AfterFetch(q, outcome, metadata) ==
    IF outcome = "request_error" THEN
        [q EXCEPT !.pc = "done", !.provider_calls = @ + 1,
                  !.resp = Some(Err(503, "HTTPException"))]
    ELSE IF outcome = "malformed" THEN
        [q EXCEPT !.pc = "done", !.provider_calls = @ + 1,
                  !.resp = Some(Err(500, "HTTPException"))]
    ELSE
        LET d == BookUpdateOf(EnhanceBookData(Val(q.obj), metadata))
        IN  IF BookUpdateOk(d)
            THEN [q EXCEPT !.pc = "select", !.provider_calls = @ + 1,
                           !.metadata = Some(metadata), !.data = d]
            ELSE [q EXCEPT !.pc = "done", !.provider_calls = @ + 1,
                           !.metadata = Some(metadata),
                           !.resp = Some(Err(500, "ValidationError"))]

\* enhance_book_data: the HTTP call of get_book_metadata, the merge and the
\* construction of BookUpdate.  outcome is what the provider did.
EnrichFetch(r, outcome, metadata) ==
    /\ req[r].kind = "enrich" /\ req[r].pc = "fetch"
    /\ req' = [req EXCEPT ![r] = AfterFetch(req[r], outcome, metadata)]
    /\ UNCHANGED <<store, nextId, now, fn>>

\* update_book called by the enrichment, up to its SELECT.  The identity map
\* of the session references the object of the first SELECT weakly: when it
\* is still alive (held) the SELECT returns it with the attributes loaded
\* then, when it was collected the SELECT loads the current row.
EnrichUpdateSelect(r, held) ==
    /\ req[r].kind = "enrich" /\ req[r].pc = "select"
    /\ req' = [req EXCEPT ![r] =
          IF req[r].book_id \in Ids
          THEN [@ EXCEPT !.pc = "flush",
                         !.obj = IF held THEN @ ELSE Some(store[req[r].book_id])]
          ELSE [@ EXCEPT !.pc = "done", !.resp = Some(Err(500, "HTTPException"))]]
    /\ UNCHANGED <<store, nextId, now, fn>>

-----------------------------------------------------------------------------
(* Inputs of the requests *)

TextA == <<"a">>
TextB == <<"b">>
AuthorX == <<"x">>
AuthorY == <<"y">>
DescD == <<"d">>

ItemPlain ==
    [title |-> Some(TextA), author |-> Some(AuthorX), description |-> None,
     publication_year |-> None, isbn |-> None]

ItemIsbnA ==
    [title |-> Some(TextB), author |-> Some(AuthorX), description |-> Some(DescD),
     publication_year |-> Some(2000), isbn |-> Some(IsbnA)]

ItemIsbnB ==
    [title |-> Some(TextA), author |-> Some(AuthorY), description |-> None,
     publication_year |-> None, isbn |-> Some(IsbnB)]

\* the invalid book of test_import_books_json: no author, year 3000
ItemNoAuthor ==
    [title |-> Some(TextA), author |-> None, description |-> None,
     publication_year |-> Some(3000), isbn |-> None]

ItemBadIsbn ==
    [title |-> Some(TextB), author |-> Some(AuthorY), description |-> None,
     publication_year |-> None, isbn |-> Some(IsbnBad)]

RECURSIVE SeqsOfLen(_, _)
SeqsOfLen(S, n) ==
    IF n = 0 THEN {<<>>}
    ELSE {Append(q, x) : q \in SeqsOfLen(S, n - 1), x \in S}

RECURSIVE SeqsUpTo(_, _)
SeqsUpTo(S, n) ==
    IF n = 0 THEN SeqsOfLen(S, 0) ELSE SeqsOfLen(S, n) \cup SeqsUpTo(S, n - 1)

BooksJson == <<"b", ".", "j", "s", "o", "n">>

ListFile(items) == [filename |-> BooksJson, json |-> "list", items |-> items]

BookIds == 1..MaxId

NoFn == [op |-> "none"]

Init ==
    /\ InitRest
    /\ fn = NoFn

-----------------------------------------------------------------------------
(* Bulk import in slot 1 against creates and deletes in slot 2 *)

ImportItems == {ItemPlain, ItemIsbnA, ItemNoAuthor, ItemBadIsbn}

ImportFiles ==
    {ListFile(b) : b \in SeqsUpTo(ImportItems, MaxBatch)}
    \cup {[filename |-> BooksJson, json |-> "dict", items |-> <<i>>] : i \in ImportItems}
    \cup {[filename |-> n, json |-> "list", items |-> <<ItemPlain>>] :
             n \in {<<"B", ".", "J", "S", "O", "N">>, <<"b", ".", "c", "s", "v">>,
                    <<"j", "s", "o", "n">>, <<>>}}
    \cup {[filename |-> BooksJson, json |-> j, items |-> <<>>] :
             j \in {"invalid", "other", "undecodable"}}

NextImport ==
    \/ \E file \in ImportFiles : ImportBegin(1, file)
    \/ ImportItem(1)
    \/ ImportRefresh(1)
    \/ ImportReturn(1)
    \/ CreateBook(2, ItemIsbnA)
    \/ CreateRefresh(2)
    \/ \E id \in BookIds : DeleteSelect(2, id)
    \/ DeleteCommit(2)
    \/ \E r \in Reqs : Reset(r)

SpecImport == Init /\ [][NextImport]_vars

-----------------------------------------------------------------------------
(* Create, read, update and delete requests in both slots *)

Upd(title, author, isbn) ==
    [title |-> title, author |-> author, description |-> None,
     publication_year |-> None, isbn |-> isbn]

CrudDrafts == {ItemPlain, ItemIsbnA, ItemNoAuthor}

CrudUpdates ==
    {Upd(Some(TextA), Some(AuthorY), None),
     Upd(None, None, Some(IsbnA)),
     Upd(None, None, Some(IsbnBad))}

\* slot 1 issues every request with every input, slot 2 the requests that
\* interfere with it
NextCrud ==
    \/ \E d \in CrudDrafts : CreateBook(1, d)
    \/ CreateBook(2, ItemIsbnA)
    \/ \E r \in Reqs : CreateRefresh(r)
    \/ \E id \in BookIds : GetBook(1, id)
    \/ \E id \in BookIds, d \in CrudUpdates : UpdateSelect(1, id, d)
    \/ \E id \in BookIds : UpdateSelect(2, id, Upd(Some(TextB), Some(AuthorX), None))
    \/ \E r \in Reqs : UpdateCommit(r)
    \/ \E r \in Reqs : UpdateRefresh(r)
    \/ \E r \in Reqs, id \in BookIds : DeleteSelect(r, id)
    \/ \E r \in Reqs : DeleteCommit(r)
    \/ \E r \in Reqs : Reset(r)

SpecCrud == Init /\ [][NextCrud]_vars

-----------------------------------------------------------------------------
(* Every kind of request: slot 1 creates, reads, deletes and enriches,      *)
(* slot 2 creates, updates and imports, writing the same isbns              *)

Meta1 ==
    [title |-> TextB, description |-> Some(DescD),
     authors |-> <<AuthorX, AuthorY>>, cover_url |-> Some(<<"u">>),
     genres |-> <<(<<"g">>), (<<"h">>)>>, publication_date |-> Some(20200131)]

Meta2 ==
    [title |-> <<>>, description |-> None, authors |-> <<>>,
     cover_url |-> None, genres |-> <<>>, publication_date |-> None]

Metadatas == {Meta1, Meta2}

FetchOutcomes == {"ok", "request_error", "malformed"}

IsbnUpdates == {Upd(None, None, Some(IsbnA)), Upd(None, None, Some(IsbnB))}

IsbnFiles == {ListFile(b) : b \in SeqsUpTo({ItemIsbnA, ItemIsbnB}, MaxBatch)}

Next ==
    \/ CreateBook(1, ItemIsbnA)
    \/ CreateBook(2, ItemIsbnA)
    \/ \E r \in Reqs : CreateRefresh(r)
    \/ \E id \in BookIds : GetBook(1, id)
    \/ \E id \in BookIds : DeleteSelect(1, id)
    \/ DeleteCommit(1)
    \/ \E id \in BookIds : EnrichSelect(1, id)
    \/ \E o \in FetchOutcomes, m \in Metadatas : EnrichFetch(1, o, m)
    \/ \E held \in BOOLEAN : EnrichUpdateSelect(1, held)
    \/ \E id \in BookIds, d \in IsbnUpdates : UpdateSelect(2, id, d)
    \/ \E r \in Reqs : UpdateCommit(r)
    \/ \E r \in Reqs : UpdateRefresh(r)
    \/ \E file \in IsbnFiles : ImportBegin(2, file)
    \/ ImportItem(2)
    \/ ImportRefresh(2)
    \/ ImportReturn(2)
    \/ \E r \in Reqs : Reset(r)
    \/ Tick

Spec == Init /\ [][Next]_vars

\* enrichment in slot 1 against creations, updates and deletions in slot 2
EnrichDrafts == {ItemPlain, ItemIsbnA}

EnrichUpdates == {Upd(Some(TextA), None, None), Upd(None, None, Some(IsbnB))}

NextEnrich ==
    \/ \E d \in EnrichDrafts : CreateBook(2, d)
    \/ CreateRefresh(2)
    \/ \E id \in BookIds : EnrichSelect(1, id)
    \/ \E o \in FetchOutcomes, m \in Metadatas : EnrichFetch(1, o, m)
    \/ \E held \in BOOLEAN : EnrichUpdateSelect(1, held)
    \/ \E id \in BookIds, d \in EnrichUpdates : UpdateSelect(2, id, d)
    \/ \E r \in Reqs : UpdateCommit(r)
    \/ \E r \in Reqs : UpdateRefresh(r)
    \/ \E id \in BookIds : DeleteSelect(2, id)
    \/ DeleteCommit(2)
    \/ \E r \in Reqs : Reset(r)
    \/ Tick

SpecEnrich == Init /\ [][NextEnrich]_vars

-----------------------------------------------------------------------------
(* The list of books, BookService.get_books *)

\* greatest number of rows of a listed table
MaxRows == 3

\* the ids of the rows the WHERE clause selects
Matching(st, filters) == {i \in DOMAIN st : RowMatches(st[i], filters)}

\* the orders in which a SELECT without ORDER BY can yield the rows of ids:
\* the statement fixes none
ScanOrders(ids) ==
    {q \in SeqsOfLen(ids, Cardinality(ids)) :
        \A i, j \in 1..Len(q) : i # j => q[i] # q[j]}

Min(a, b) == IF a < b THEN a ELSE b

\* get_books: the count query, then query.offset(...).limit(...) yielding
\* the selected rows in the order scan
GetBooks(st, page, page_size, filters, scan) ==
    LET total_items == Cardinality(Matching(st, filters))
        offset == (page - 1) * page_size
    IN  [items |-> [k \in 1..(Min(offset + page_size, Len(scan)) - Min(offset, Len(scan))) |->
                       st[scan[offset + k]]],
         metadata |-> PaginationMetadata(total_items, page, page_size)]

ListTitles == {TextA, TextB}

ListRow(id, title) ==
    NewRow(id, [ItemPlain EXCEPT !.title = Some(title)], 0)

\* tables of at most MaxRows books
ListTables ==
    UNION {{[i \in K |-> ListRow(i, t[i])] : t \in [K -> ListTitles]} :
           K \in SUBSET (1..MaxRows)}

ListFilters == {[title |-> None], [title |-> Some(TextA)]}

\* two calls of get_books with the same arguments on one unchanged table
InitList ==
    /\ InitRest
    /\ \E st \in ListTables, p \in 1..MaxPage, s \in 1..MaxPageSize,
          f \in ListFilters :
          fn = [op |-> "list", table |-> st, page |-> p, page_size |-> s,
                filters |-> f, calls |-> <<>>]

ApplyList ==
    /\ fn.op = "list" /\ Len(fn.calls) < 2
    /\ \E scan \in ScanOrders(Matching(fn.table, fn.filters)) :
          fn' = [fn EXCEPT !.calls =
                    Append(@, GetBooks(fn.table, fn.page, fn.page_size, fn.filters, scan))]
    /\ UNCHANGED <<store, nextId, now, req>>

SpecList == InitList /\ [][ApplyList]_vars

-----------------------------------------------------------------------------
(* The handler of the exceptions no route catches, global_exception_handler *)

\* ErrorResponse(status, error, error_details).model_dump()
ErrorResponse(status, error, error_details) ==
    [status |-> status, message |-> None, error |-> error,
     error_details |-> error_details]

\* the JSONResponse returned for the exception exc; type is type(exc).__name__
\* and message is str(exc)
GlobalExceptionHandler(exc) ==
    [status_code |-> 500,
     content |-> ErrorResponse(FALSE, "Internal server error",
                               Some([type |-> exc.type, message |-> exc.message]))]

\* the exceptions that reach the handler in the requests above
ExceptionTypes ==
    {"IntegrityError", "StaleDataError", "InvalidRequestError",
     "PendingRollbackError", "ValidationError", "UnicodeDecodeError"}

\* an exception of each type with every short text as its message
Exceptions == [type : ExceptionTypes, message : TextsUpTo(MaxTextLen)]

InitHandler ==
    /\ InitRest
    /\ \E exc \in Exceptions : fn = [op |-> "handler", exc |-> exc, out |-> None]

ApplyHandler ==
    /\ fn.op = "handler" /\ IsNone(fn.out)
    /\ fn' = [fn EXCEPT !.out = Some(GlobalExceptionHandler(fn.exc))]
    /\ UNCHANGED <<store, nextId, now, req>>

SpecHandler == InitHandler /\ [][ApplyHandler]_vars

-----------------------------------------------------------------------------
(* The merge of metadata into a book, MetadataService.enhance_book_data *)

AuthorA == <<"A">>

\* book.model_dump() of a stored book, and dicts without author
MergeBooks ==
    [title : {Some(TextA)},
     author : {None, Some(<<>>), Some(AuthorA)},
     description : {None, Some(<<>>), Some(<<"e">>)},
     publication_year : {None, Some(2000)},
     isbn : {Some(IsbnA)}]

MergeMetadatas ==
    [title : {<<>>, TextB},
     description : {None, Some(<<>>), Some(DescD)},
     authors : {<<>>, <<AuthorX>>, <<AuthorX, AuthorY>>},
     cover_url : {None, Some(<<"u">>)},
     genres : {<<>>, <<(<<"g">>)>>, <<(<<"g">>), (<<"h">>)>>},
     publication_date : {None, Some(20200131)}]

InitMerge ==
    /\ InitRest
    /\ \E b \in MergeBooks, m \in MergeMetadatas :
          fn = [op |-> "merge", book_data |-> b, metadata |-> m, out |-> None]

ApplyMerge ==
    /\ fn.op = "merge" /\ IsNone(fn.out)
    /\ fn' = [fn EXCEPT !.out = Some(EnhanceBookData(fn.book_data, fn.metadata))]
    /\ UNCHANGED <<store, nextId, now, req>>

SpecMerge == InitMerge /\ [][ApplyMerge]_vars

-----------------------------------------------------------------------------
(* C4: for total_items >= 0, page >= 1, page_size >= 1 the metadata of a   *)
(* list has total_pages = ceil(total_items / page_size) (the least n with  *)
(* n * page_size >= total_items; 0 for an empty result), has_next =        *)
(* (page < total_pages) and has_previous = (page > 1).                     *)

IsCeil(n, a, b) == n * b >= a /\ (n - 1) * b < a

C4_Pagination ==
    (fn.op = "page" /\ ~IsNone(fn.out)) =>
        LET m == Val(fn.out)
        IN  /\ IF fn.total_items > 0
               THEN IsCeil(m.total_pages, fn.total_items, fn.page_size)
               ELSE m.total_pages = 0
            /\ m.has_next = (fn.page < m.total_pages)
            /\ m.has_previous = (fn.page > 1)
            /\ (fn.total_items = 0 => ~m.has_next)

\* a partial last page: 7 items in pages of 3 give 3 pages, page 3 is the last
C4_Witness ==
    /\ fn.op = "page" /\ ~IsNone(fn.out)
    /\ fn.total_items = 7 /\ fn.page_size = 3 /\ fn.page = 3
    /\ Val(fn.out).total_pages = 3 /\ ~Val(fn.out).has_next /\ Val(fn.out).has_previous

-----------------------------------------------------------------------------
(* C10: a row matches a filter set exactly when it satisfies every         *)
(* supplied filter: title and author by case-insensitive substring         *)
(* containment, publication_year and isbn by equality.                     *)

Contains(text, sub) ==
    \E k \in 0..(Len(text) - Len(sub)) : SubSeq(text, k + 1, k + Len(sub)) = sub

ContainsNoCase(text, sub) == Contains(LowerText(text), LowerText(sub))

C10_FilterIsSubstringAnd ==
    (fn.op = "filter" /\ ~IsNone(fn.out)) =>
        Val(fn.out) =
            (/\ IsNone(fn.query.title)
                  \/ ContainsNoCase(Val(fn.row.title), Val(fn.query.title))
             /\ IsNone(fn.query.author)
                  \/ ContainsNoCase(Val(fn.row.author), Val(fn.query.author))
             /\ IsNone(fn.query.publication_year)
                  \/ fn.row.publication_year = fn.query.publication_year
             /\ IsNone(fn.query.isbn) \/ fn.row.isbn = fn.query.isbn)

-----------------------------------------------------------------------------
(* Bulk import: what a finished process_json_file returned *)

ImportDone(r) ==
    /\ req[r].kind = "import" /\ req[r].pc = "done"
    /\ req[r].resp = Some(Resp(200, None))

NItems(r) == Len(req[r].batch)

\* K: the items of the batch that fail validation
KInvalid(r) ==
    Cardinality({i \in 1..Len(req[r].batch) : ~BookCreateOk(req[r].batch[i])})

Positions(errors) == {errors[i].pos : i \in 1..Len(errors)}

\* the step is an iteration of the import loop of slot r on its item idx+1
ImportStep(r) ==
    /\ req[r].kind = "import" /\ req[r].pc \in {"loop", "refresh"}
    /\ req'[r] # req[r] /\ req'[r].kind = "import" /\ req'[r].pc # "done"

\* the step commits the INSERT of the item being processed
Inserts(r) ==
    /\ req[r].kind = "import" /\ req[r].pc = "loop" /\ req'[r].pc = "refresh"

ItemOf(r) == req[r].batch[req[r].idx + 1]

InsertedItem(r) ==
    /\ nextId \notin DOMAIN store
    /\ DOMAIN store' = DOMAIN store \cup {nextId}
    /\ SameUserFields(store'[nextId], ItemOf(r))
    /\ \A i \in DOMAIN store : store'[i] = store[i]

C2_ImportContinues ==
    [][\A r \in Reqs :
         (ImportStep(r) /\ req[r].pc = "loop" /\ BookCreateOk(ItemOf(r)))
         => IF IsbnTaken(store, ItemOf(r).isbn, 0)
            THEN /\ req'[r].failed_imports = req[r].failed_imports + 1
                 /\ Len(req'[r].errors) = Len(req[r].errors) + 1
                 /\ req'[r].idx = req[r].idx + 1
                 /\ store' = store
            ELSE Inserts(r) /\ InsertedItem(r)]_vars

(* C3: the error list of a bulk import has one string per failed item,     *)
(* naming the item's 1-based position, in the input order of the failing   *)
(* items whatever the kind of failure.                                     *)
C3_ErrorsInInputOrder ==
    /\ [](\A r \in Reqs : req[r].kind = "import" =>
            /\ Len(req[r].errors) = req[r].failed_imports
            /\ \A i, j \in 1..Len(req[r].errors) :
                  i < j => req[r].errors[i].pos < req[r].errors[j].pos
            /\ Positions(req[r].errors) \subseteq 1..req[r].idx)
    /\ [][\A r \in Reqs : ImportStep(r) =>
            IF req'[r].failed_imports = req[r].failed_imports
            THEN req'[r].errors = req[r].errors
            ELSE /\ req'[r].failed_imports = req[r].failed_imports + 1
                 /\ Len(req'[r].errors) = Len(req[r].errors) + 1
                 /\ SubSeq(req'[r].errors, 1, Len(req[r].errors)) = req[r].errors
                 /\ req'[r].errors[Len(req'[r].errors)].pos = req[r].idx + 1
                 /\ req'[r].idx = req[r].idx + 1]_vars

\* a repository failure at item 2 reported before the validation failure of
\* item 3
C3_Witness ==
    \E r \in Reqs :
        /\ ImportDone(r)
        /\ Len(req[r].errors) = 2
        /\ req[r].errors[1] = [kind |-> "import", pos |-> 2]
        /\ req[r].errors[2] = [kind |-> "validation", pos |-> 3]

-----------------------------------------------------------------------------
(* Create, update, delete: the steps a claim is about *)

\* slot r commits the UPDATE of a PUT on a book that exists
UpdateCommitted(r) ==
    /\ req[r].kind = "update" /\ req[r].pc = "flush" /\ req'[r].pc = "refresh"
    /\ req[r].book_id \in DOMAIN store

\* slot r commits the INSERT of a POST
CreateCommitted(r) ==
    /\ req[r].pc = "idle" /\ req'[r].kind = "create" /\ req'[r].pc = "refresh"

OthersUnchanged(id) ==
    /\ DOMAIN store' \ {id} = DOMAIN store \ {id}
    /\ \A i \in DOMAIN store \ {id} : store'[i] = store[i]

(* C5: update(id, partial) on an existing book sets exactly the fields     *)
(* present in the partial to the supplied values; every omitted field of   *)
(* the book and every other book keeps its prior value.                    *)
C5_UpdateAppliesPartial ==
    [][\A r \in Reqs : UpdateCommitted(r) =>
         LET id == req[r].book_id
             d == req[r].data
         IN  /\ id \in DOMAIN store'
             /\ \A f \in UserFields :
                   store'[id][f] = IF IsNone(d[f]) THEN store[id][f] ELSE d[f]
             /\ OthersUnchanged(id)]_vars

(* C6: creating a book assigns it a fresh integer id, and get_book_by_id   *)
(* of that id on the store the create left returns a record equal to the   *)
(* draft in title, author, description, publication_year and isbn.         *)
C6_CreateThenGet ==
    [][\A r \in Reqs : CreateCommitted(r) =>
         LET id == req'[r].book_id
             got == GetBookById(store', id)
         IN  /\ id \in Nat /\ id \notin DOMAIN store
             /\ ~IsNone(got)
             /\ Val(got).id = id
             /\ \A f \in UserFields : Val(got)[f] = req'[r].data[f]
             /\ OthersUnchanged(id)]_vars

\* a POST with every field supplied answered 201, the book still as drafted
C6_Witness ==
    \E r \in Reqs :
        /\ req[r].kind = "create" /\ req[r].pc = "done"
        /\ req[r].data = ItemIsbnA
        /\ ~IsNone(req[r].resp) /\ Val(req[r].resp).code = 201
        /\ GetBookById(store, req[r].book_id) = Val(req[r].resp).book
        /\ \A f \in UserFields : Val(Val(req[r].resp).book)[f] = ItemIsbnA[f]

(* C7: delete(id) answers true (200) only for an id whose record it found, *)
(* and then the record is gone and every other record is as before; for an *)
(* id without record it answers false (404), raises nothing and changes    *)
(* nothing; an id once removed is never found again.                       *)
C7_Delete ==
    /\ [][\A r \in Reqs :
            /\ (req[r].pc = "idle" /\ req'[r].kind = "delete") =>
                  /\ store' = store
                  /\ IF IsNone(GetBookById(store, req'[r].book_id))
                     THEN /\ req'[r].pc = "done"
                          /\ req'[r].resp = Some(Err(404, "HTTPException"))
                     ELSE req'[r].pc = "flush" /\ IsNone(req'[r].resp)
            /\ (req[r].kind = "delete" /\ req[r].pc = "flush" /\ req'[r].pc = "done") =>
                  /\ Val(req'[r].resp).code = 200
                  /\ IsNone(GetBookById(store', req[r].book_id))
                  /\ OthersUnchanged(req[r].book_id)]_vars
    /\ [][\A i \in 1..(nextId - 1) : i \notin DOMAIN store => i \notin DOMAIN store']_vars

\* a delete answered 404 for an id that had been assigned and removed
C7_Witness ==
    \E r \in Reqs :
        /\ req[r].kind = "delete" /\ req[r].pc = "done"
        /\ req[r].resp = Some(Err(404, "HTTPException"))
        /\ req[r].book_id < nextId
        /\ IsNone(GetBookById(store, req[r].book_id))
        /\ Ids # {}

(* C8: in every reachable state, whatever the interleaving of creates,     *)
(* updates, enrichments and imports, no two stored books have the same     *)
(* non-null isbn.                                                          *)
C8_IsbnUnique ==
    \A i, j \in Ids :
        (i # j /\ ~IsNone(store[i].isbn)) => store[i].isbn # store[j].isbn

\* two overlapping creates of one isbn: one row stored, the other rejected
C8_Witness ==
    /\ req[1].kind = "create" /\ req[2].kind = "create"
    /\ req[1].data.isbn = req[2].data.isbn
    /\ \E r \in Reqs :
          /\ req[r].pc = "refresh"
          /\ req[3 - r].resp = Some(Err(500, "IntegrityError"))
    /\ Cardinality({i \in Ids : store[i].isbn = req[1].data.isbn}) = 1

Collides(isbn) == ~IsNone(isbn) /\ \E i \in DOMAIN store : store[i].isbn = isbn

(* C9: create(draft) whose isbn is the isbn of a stored record fails with  *)
(* the constraint violation of the store (IntegrityError), adds no record  *)
(* and leaves every record as it was.                                      *)
C9_DuplicateIsbnRejected ==
    [][\A r \in Reqs :
         (/\ req[r].pc = "idle" /\ req'[r].kind = "create"
          /\ BookCreateOk(req'[r].data) /\ Collides(req'[r].data.isbn))
         => /\ req'[r].pc = "done"
            /\ req'[r].resp = Some(Err(500, "IntegrityError"))
            /\ store' = store]_vars

\* a POST rejected for the isbn of a stored book
C9_Witness ==
    \E r \in Reqs :
        /\ req[r].kind = "create" /\ req[r].pc = "done"
        /\ req[r].resp = Some(Err(500, "IntegrityError"))
        /\ Collides(req[r].data.isbn)

-----------------------------------------------------------------------------
(* Claim C11 *)

RecognizedKeys == {"title", "author", "publication_year", "isbn"}

\* C11: only the keys title, author, publication_year and isbn with a
\* non-null value contribute a term to the compiled predicate; every other
\* key and every null value is ignored, so a row is selected exactly when it
\* satisfies the terms of those four keys, and an empty filter set selects
\* every row.
C11_OnlyRecognizedKeys ==
    (fn.op = "compile" /\ ~IsNone(fn.out)) =>
        LET f == fn.filters
            terms == {key \in DOMAIN f \cap RecognizedKeys : ~IsNone(f[key])}
        IN  /\ Val(fn.out).terms = terms
            /\ Val(fn.out).selected =
                  (\A key \in terms :
                      IF key \in {"title", "author"}
                      THEN ILike(Val(fn.row[key]), Val(f[key]))
                      ELSE fn.row[key] = f[key])
            /\ (DOMAIN f = {}) => Val(fn.out).selected

\* the parts of C11 the compiled predicate does satisfy: null values and keys
\* that name no column contribute nothing, and no condition selects every row
C11_NullAndUnknownIgnored ==
    (fn.op = "compile" /\ ~IsNone(fn.out)) =>
        /\ \A key \in Val(fn.out).terms :
              key \in DOMAIN fn.filters /\ ~IsNone(fn.filters[key]) /\ key # "genre"
        /\ (Val(fn.out).terms = {}) => Val(fn.out).selected

-----------------------------------------------------------------------------
(* Claim C12 *)

\* C12: a list returns total_items equal to the number of all stored books
\* that match the filters, whatever page and page_size are, and items equal
\* to the slice of the matching books that starts at offset
\* (page - 1) * page_size and has at most page_size entries; the matching
\* books have one order on unchanged data, so that two calls return the
\* same items in the same order.
C12_ListSliceStable ==
    (fn.op = "list") =>
        LET m == Matching(fn.table, fn.filters)
            offset == (fn.page - 1) * fn.page_size
            n == Min(offset + fn.page_size, Cardinality(m)) - Min(offset, Cardinality(m))
        IN  /\ \E order \in ScanOrders(m) :
                  \A c \in 1..Len(fn.calls) :
                      /\ fn.calls[c].metadata.total_items = Cardinality(m)
                      /\ Len(fn.calls[c].items) <= fn.page_size
                      /\ fn.calls[c].items = [k \in 1..n |-> fn.table[order[offset + k]]]
            /\ Len(fn.calls) = 2 => fn.calls[1].items = fn.calls[2].items

\* what every call of get_books does satisfy: the count, the number of items
\* and that the items are distinct matching books
C12_CountAndSize ==
    (fn.op = "list") =>
        LET m == Matching(fn.table, fn.filters)
            offset == (fn.page - 1) * fn.page_size
        IN  \A c \in 1..Len(fn.calls) :
              LET items == fn.calls[c].items
              IN  /\ fn.calls[c].metadata.total_items = Cardinality(m)
                  /\ Len(items) = Min(offset + fn.page_size, Cardinality(m))
                                    - Min(offset, Cardinality(m))
                  /\ \A k \in 1..Len(items) :
                        items[k].id \in m /\ items[k] = fn.table[items[k].id]
                  /\ \A j, k \in 1..Len(items) : j # k => items[j] # items[k]

-----------------------------------------------------------------------------
(* Claim C13 *)

\* the step is one of request r
StepOf(r) == req'[r] # req[r]

\* request r begins an enrichment in this step
EnrichBegins(r) == req[r].pc = "idle" /\ req'[r].kind = "enrich"

\* C13: the enrichment of an id that has no record fails with 404 and the
\* enrichment of a stored book without ISBN fails with 400; in both cases
\* the request is over without having called the metadata API and the table
\* is as it was.
C13_EnrichPrecondition ==
    [][\A r \in Reqs : EnrichBegins(r) =>
          LET id == req'[r].book_id
              missing == id \notin Ids
              noisbn == id \in Ids /\ IsNone(store[id].isbn)
          IN  /\ missing => req'[r].resp = Some(Err(404, "HTTPException"))
              /\ noisbn => req'[r].resp = Some(Err(400, "HTTPException"))
              /\ (missing \/ noisbn) =>
                    /\ req'[r].pc = "done"
                    /\ req'[r].provider_calls = 0
                    /\ store' = store]_vars

C13_Witness ==
    \E r \in Reqs :
        /\ req[r].kind = "enrich" /\ req[r].pc = "done"
        /\ req[r].book_id \in Ids /\ IsNone(store[req[r].book_id].isbn)
        /\ req[r].resp = Some(Err(400, "HTTPException"))
        /\ req[r].provider_calls = 0

-----------------------------------------------------------------------------
(* Claim C14 *)

\* request r sends its GET to the metadata API in this step
Fetches(r) == req'[r].provider_calls > req[r].provider_calls

\* C14: an enrichment request calls the metadata API at most once; when the
\* call fails the request is over with an error response in the same step,
\* and it writes to the table neither in that step nor before it (the only
\* step of an enrichment that writes is the flush that follows a successful
\* call).
C14_FetchOnceFailFast ==
    /\ [](\A r \in Reqs : req[r].provider_calls <= 1)
    /\ [][\A r \in Reqs :
            /\ (Fetches(r) /\ req'[r].pc # "select") =>
                  /\ req'[r].pc = "done"
                  /\ ~IsNone(req'[r].resp) /\ Val(req'[r].resp).code >= 400
                  /\ store' = store
            /\ (StepOf(r) /\ req[r].kind = "enrich" /\ req[r].pc # "flush") =>
                  store' = store
            /\ (req[r].kind = "enrich" /\ req[r].pc = "flush") =>
                  (req[r].provider_calls = 1 /\ IsNone(req[r].resp))]_vars

C14_Witness ==
    \E r \in Reqs :
        /\ req[r].kind = "enrich" /\ req[r].pc = "done"
        /\ req[r].provider_calls = 1
        /\ req[r].resp = Some(Err(503, "HTTPException"))
        /\ GetBookById(store, req[r].book_id) = req[r].obj

-----------------------------------------------------------------------------
(* Claim C15 *)

\* C15: when the call of the metadata API fails, because the API cannot be
\* reached or because its answer is no valid metadata, the enrichment ends
\* with status 502 or 503, never with 500 and never with a success.
C15_ProviderFailureIs50x ==
    [][\A r \in Reqs :
          (Fetches(r) /\ req'[r].pc = "done"
             /\ Val(req'[r].resp).error = "HTTPException") =>
               Val(req'[r].resp).code \in {502, 503}]_vars

\* the part of C15 that holds: a failed call never ends in a success, and an
\* API that cannot be reached gives 503
C15_ProviderFailureIsError ==
    [][\A r \in Reqs :
          (Fetches(r) /\ req'[r].pc = "done") =>
               Val(req'[r].resp).code \in {500, 503}]_vars

-----------------------------------------------------------------------------
(* Claims C16 and C17 *)

\* a text that is absent or empty
Empty(o) == IsNone(o) \/ Val(o) = <<>>

\* C16: the merge decides every field on its own.  The title becomes the
\* title of the metadata whenever that is non-empty; the description becomes
\* the description of the metadata only if the book has none (absent or
\* empty); the author becomes the name of the first author of the metadata
\* only if the book has none; a non-empty description or author of the book
\* is never changed.
C16_MergePerField ==
    (fn.op = "merge" /\ ~IsNone(fn.out)) =>
        LET b == fn.book_data
            m == fn.metadata
            out == Val(fn.out)
        IN  /\ out.title = IF m.title # <<>> THEN Some(m.title) ELSE b.title
            /\ out.description # b.description =>
                  (Empty(b.description) /\ out.description = m.description)
            /\ (Empty(b.description) /\ ~Empty(m.description)) =>
                  out.description = m.description
            /\ out.author # b.author =>
                  (Empty(b.author) /\ m.authors # <<>>
                     /\ out.author = Some(Head(m.authors)))
            /\ (Empty(b.author) /\ m.authors # <<>>) =>
                  out.author = Some(Head(m.authors))
            /\ ~Empty(b.description) => out.description = b.description
            /\ ~Empty(b.author) => out.author = b.author

C16_Witness ==
    /\ fn.op = "merge" /\ ~IsNone(fn.out)
    /\ IsNone(fn.book_data.author) /\ Len(fn.metadata.authors) = 2
    /\ Val(fn.out).author = Some(AuthorX)
    /\ ~Empty(fn.book_data.description) /\ ~Empty(fn.metadata.description)
    /\ Val(fn.out).description = fn.book_data.description
    /\ Val(fn.out).title = Some(TextB)

\* the example of C17: a book with empty description and author "A", and
\* metadata with description "D" and the authors X and Y
C17_Example ==
    /\ fn.op = "merge" /\ ~IsNone(fn.out)
    /\ fn.book_data.description = Some(<<>>)
    /\ fn.book_data.author = Some(AuthorA)
    /\ fn.metadata.description = Some(DescD)
    /\ fn.metadata.authors = <<AuthorX, AuthorY>>

\* the fields no rule of the merge names
C17_Untouched ==
    /\ Val(fn.out).publication_year = fn.book_data.publication_year
    /\ Val(fn.out).isbn = fn.book_data.isbn

\* C17 as stated: the merge of the example yields description "D" and author
\* X, the first author of the metadata, and leaves the fields no rule names
\* untouched.
C17_AsStated ==
    C17_Example =>
        /\ Val(fn.out).description = Some(DescD)
        /\ Val(fn.out).author = Some(AuthorX)
        /\ C17_Untouched

\* C17 amended: the merge of the example yields description "D" and keeps
\* the author "A", because the book has an author; the fields no rule names
\* are untouched.
C17_MergeExample ==
    C17_Example =>
        /\ Val(fn.out).description = Some(DescD)
        /\ Val(fn.out).author = Some(AuthorA)
        /\ C17_Untouched

C17_Witness ==
    /\ C17_Example
    /\ Val(fn.out).description = Some(DescD)
    /\ Val(fn.out).author = fn.book_data.author

-----------------------------------------------------------------------------
(* Claims C18 and C19 *)

\* the calendar year of a date written yyyymmdd
YearOf(date) == date \div 10000

\* request r is an enrichment that ended with 200
Enriched(r) ==
    /\ req[r].kind = "enrich" /\ req[r].pc = "done"
    /\ Val(req[r].resp).code = 200

\* C18: when the metadata of an enrichment carries a publication date, the
\* merge converts it to its calendar year and that year is the
\* publication_year of the update that is persisted and of the book that is
\* returned; the date itself is never the value of publication_year.
C18_DateBecomesYear ==
    \A r \in Reqs :
        (Enriched(r) /\ ~IsNone(Val(req[r].metadata).publication_date)) =>
            LET date == Val(Val(req[r].metadata).publication_date)
            IN  /\ req[r].data.publication_year = Some(YearOf(date))
                /\ Val(Val(req[r].resp).book).publication_year = Some(YearOf(date))

\* the part of C18 that holds: no date is ever the value of a
\* publication_year, in the update, in the response or in the table
C18_NoRawDateInYear ==
    \A r \in Reqs :
        (req[r].kind = "enrich" /\ ~IsNone(req[r].metadata)) =>
            LET date == Val(req[r].metadata).publication_date
            IN  /\ IsNone(date) \/ req[r].data.publication_year # date
                /\ \A i \in Ids : IsNone(date) \/ store[i].publication_year # date

\* C19: after a successful enrichment whose metadata has a cover URL and at
\* least one genre, the book that is returned, and the row that was written,
\* carry that cover URL and the name of the first genre.
C19_CoverAndGenreStored ==
    \A r \in Reqs :
        (Enriched(r) /\ ~IsNone(Val(req[r].metadata).cover_url)
           /\ Val(req[r].metadata).genres # <<>>) =>
            LET m == Val(req[r].metadata)
                book == Val(Val(req[r].resp).book)
            IN  /\ {"cover_url", "genre"} \subseteq DOMAIN book
                /\ book.cover_url = m.cover_url
                /\ book.genre = Some(Head(m.genres))

\* the merged dict does carry both values; BookUpdate drops them
C19_MergedDictHasCoverAndGenre ==
    (fn.op = "merge" /\ ~IsNone(fn.out)) =>
        /\ Val(fn.out).cover_url = fn.metadata.cover_url
        /\ fn.metadata.genres # <<>> =>
              Val(fn.out).genre = Some(Head(fn.metadata.genres))

-----------------------------------------------------------------------------
(* Claim C20 *)

\* C20: an exception that no route handles is answered with status 500 and
\* a structured body: status false, an error message, and details from which
\* the text of the exception has been removed.
C20_Generic500Redacted ==
    (fn.op = "handler" /\ ~IsNone(fn.out)) =>
        LET out == Val(fn.out)
        IN  /\ out.status_code = 500
            /\ out.content.status = FALSE
            /\ out.content.error # ""
            /\ fn.exc.message # <<>> =>
                  \/ IsNone(out.content.error_details)
                  \/ Val(out.content.error_details).message # fn.exc.message

\* the part of C20 that holds of the handler: status 500, status false, one
\* fixed error message whatever the exception is
C20_Generic500 ==
    (fn.op = "handler" /\ ~IsNone(fn.out)) =>
        /\ Val(fn.out).status_code = 500
        /\ Val(fn.out).content.status = FALSE
        /\ Val(fn.out).content.error = "Internal server error"

\* the part of C20 that holds of the requests: every request that is over
\* has a response, and one that ended in an exception other than
\* HTTPException and RequestValidationError has status 500
C20_NoRequestWithoutResponse ==
    \A r \in Reqs :
        req[r].pc = "done" =>
            /\ ~IsNone(req[r].resp)
            /\ Val(req[r].resp).error \in ExceptionTypes =>
                  Val(req[r].resp).code = 500

-----------------------------------------------------------------------------
(* Claim C21 *)

\* request r begins an import in this step
ImportBegins(r) == req[r].pc = "idle" /\ req'[r].kind = "import"

\* the name ends in .json, in whatever case
NamedJson(file) ==
    /\ Len(file.filename) >= 5
    /\ LowerText(SubSeq(file.filename, Len(file.filename) - 4, Len(file.filename)))
          = <<".", "j", "s", "o", "n">>

\* the content is valid JSON
ValidJson(file) == file.json \in {"list", "dict", "other"}

\* C21: an import whose file name does not end in .json, or whose content
\* is not valid JSON, ends with a 400 error before any item is processed: no
\* record is created and the table is unchanged.
C21_BadFileRejected ==
    [][\A r \in Reqs : ImportBegins(r) =>
          LET file == Val(req'[r].file)
          IN  (~NamedJson(file) \/ ~ValidJson(file)) =>
                /\ req'[r].pc = "done"
                /\ Val(req'[r].resp).code = 400
                /\ req'[r].idx = 0 /\ req'[r].inserted = <<>>
                /\ store' = store]_vars

\* the part of C21 that holds: such a file ends the request with an error
\* before any item is processed and the table is unchanged
C21_BadFileCreatesNothing ==
    [][\A r \in Reqs : ImportBegins(r) =>
          LET file == Val(req'[r].file)
          IN  (~NamedJson(file) \/ ~ValidJson(file)) =>
                /\ req'[r].pc = "done"
                /\ Val(req'[r].resp).code \in {400, 500}
                /\ req'[r].idx = 0 /\ req'[r].inserted = <<>>
                /\ store' = store]_vars

-----------------------------------------------------------------------------
(* Claim C22 *)

\* request r, an update or an enrichment, gets through the commit of
\* update_book in this step
UpdateSucceeds(r) ==
    /\ req[r].kind \in {"update", "enrich"}
    /\ req[r].pc = "flush" /\ req'[r].pc = "refresh"
    /\ req[r].book_id \in DOMAIN store

-----------------------------------------------------------------------------
(* Claim C23 *)

\* C23: a file whose JSON value is a single object is processed as a batch
\* of that one item, so that an invalid object returns successful = 0,
\* failed = 1 and one error string; a JSON value that is neither an object
\* nor an array ends the request with 400 and creates no record.
C23_SingleObjectIsBatchOfOne ==
    /\ [][\A r \in Reqs : ImportBegins(r) =>
            LET file == Val(req'[r].file)
            IN  /\ (NamedJson(file) /\ file.json = "dict") =>
                      /\ req'[r].pc = "loop"
                      /\ req'[r].batch = <<file.items[1]>>
                /\ (NamedJson(file) /\ file.json = "other") =>
                      /\ req'[r].pc = "done"
                      /\ req'[r].resp = Some(Err(400, "HTTPException"))
                      /\ req'[r].inserted = <<>>
                      /\ store' = store]_vars
    /\ [](\A r \in Reqs :
            (ImportDone(r) /\ Val(req[r].file).json = "dict") =>
                /\ req[r].successful_imports + req[r].failed_imports = 1
                /\ ~BookCreateOk(Val(req[r].file).items[1]) =>
                      /\ req[r].successful_imports = 0
                      /\ req[r].failed_imports = 1
                      /\ Len(req[r].errors) = 1
                      /\ req[r].inserted = <<>>)

C23_Witness ==
    \E r \in Reqs :
        /\ ImportDone(r) /\ Val(req[r].file).json = "dict"
        /\ Val(req[r].file).items[1] = ItemNoAuthor
        /\ req[r].successful_imports = 0 /\ req[r].failed_imports = 1
        /\ Len(req[r].errors) = 1

-----------------------------------------------------------------------------
(* Claim C24 *)

\* C24: whatever items of a batch of N fail, in validation or in the
\* repository, the import looks at each item once and in input order, ends,
\* and returns successful + failed = N and as many error strings as failed
\* items; the number of records the batch added to the table is successful.
C24_ImportAccounting ==
    /\ [][\A r \in Reqs : ImportStep(r) =>
            /\ req'[r].batch = req[r].batch
            /\ req'[r].idx = IF req'[r].pc = "refresh" THEN req[r].idx
                             ELSE req[r].idx + 1]_vars
    /\ [](\A r \in Reqs : ImportDone(r) =>
            /\ req[r].idx = NItems(r)
            /\ req[r].successful_imports + req[r].failed_imports = NItems(r)
            /\ Len(req[r].errors) = req[r].failed_imports
            /\ Len(req[r].inserted) = req[r].successful_imports)

\* the part of C24 that holds: one pass in input order, counts that add up
\* to N, one error string for each failed item, and no item counted as
\* successful without its record having been added
C24_CountsAddUp ==
    /\ [][\A r \in Reqs : ImportStep(r) =>
            /\ req'[r].batch = req[r].batch
            /\ req'[r].idx = IF req'[r].pc = "refresh" THEN req[r].idx
                             ELSE req[r].idx + 1]_vars
    /\ [](\A r \in Reqs : ImportDone(r) =>
            /\ req[r].idx = NItems(r)
            /\ req[r].successful_imports + req[r].failed_imports = NItems(r)
            /\ Len(req[r].errors) = req[r].failed_imports
            /\ req[r].successful_imports <= Len(req[r].inserted))

-----------------------------------------------------------------------------
(* Claim C25 *)

\* the fields of a book no rule of the merge sets
CarriedFields == {"publication_year", "isbn"}

\* C25: the write of an enrichment changes no field other than the ones the
\* merge sets, so that a value an update committed to the book between the
\* first read of the enrichment and its write is never overwritten; and an
\* enrichment never recreates a book that was deleted in between.
C25_EnrichKeepsConcurrentUpdate ==
    [][\A r \in Reqs :
          /\ (UpdateSucceeds(r) /\ req[r].kind = "enrich") =>
                \A f \in CarriedFields :
                    store'[req[r].book_id][f] = store[req[r].book_id][f]
          /\ (StepOf(r) /\ req[r].kind = "enrich") =>
                (req[r].book_id \notin DOMAIN store =>
                    req[r].book_id \notin DOMAIN store')]_vars

\* the part of C25 that holds: an enrichment never recreates a deleted book
C25_NoRecreation ==
    [][\A r \in Reqs :
          (StepOf(r) /\ req[r].kind = "enrich") =>
              DOMAIN store' = DOMAIN store]_vars

====
